---- MODULE Spec2Model ----
\* A model of dnssec_tester: the data model (models.py), the policy checks
\* (validator.py), the resolver wrapper and chain walk (resolver.py), the
\* analyzer (analyzer.py) and the orchestrator (tester.py).
\*
\* Abstractions.  Timestamps and validation_time_ms are left out of a result.
\* A domain name is the sequence of its labels, leaf first; the root is <<>>.
\* A record set is the sequence of its records.  Optional[RRset] is a record
\* [present, rrset] so that "is not None" (present) and truthiness (present and
\* non-empty) stay two different tests, as they are in the code.
EXTENDS Integers, Sequences, FiniteSets, TLC

\* ---------------------------------------------------------------- bounds
MaxDomains == 3
MaxLabels == 2
MaxRecords == 1
MaxIssues == 2
MaxKeys == 2

\* ------------------------------------------------------ models.py: enums
Severity == {"critical", "high", "medium", "low", "info"}

IssueType ==
  {"chain_invalid", "signature_expired", "algorithm_weak", "key_weak",
   "ds_mismatch", "expiration_warning", "configuration_issue", "key_rollover",
   "nsec_issue", "trust_anchor_issue"}

\* SecurityIssue(type, severity, message): `about` is what the message
\* interpolates, as a sequence of strings: << >> for a constant message, the
\* algorithm name, or the labels of a chain element's name.
SecurityIssue(type, severity, message, about) ==
  [type |-> type, severity |-> severity, message |-> message, about |-> about]

\* any(pred(x) for x in seq)
AnySeverity(issues, sev) == \E i \in 1..Len(issues) : issues[i].severity = sev

\* ValidationResult.overall_status
overall_status_IgnoresEnabled(r) ==
  IF AnySeverity(r.security_issues, "critical") THEN "critical_issues"
  ELSE IF AnySeverity(r.security_issues, "high") THEN "vulnerable"
  ELSE IF Len(r.security_issues) > 0 THEN "warnings"
  ELSE "secure"

overall_status(r) ==
  IF ~r.dnssec_enabled THEN "no_dnssec"
  ELSE IF AnySeverity(r.security_issues, "critical") THEN "critical_issues"
  ELSE IF AnySeverity(r.security_issues, "high") THEN "vulnerable"
  ELSE IF Len(r.security_issues) > 0 THEN "warnings"
  ELSE "secure"

\* security_issues: List[SecurityIssue] = field(default_factory=list): a new
\* result gets a list of its own, whatever the previous result's list holds.
DefaultIssues_Shared(previous) == previous

DefaultIssues(previous) == << >>

\* ValidationResult(domain, timestamp, dnssec_enabled, chain_valid=False, 0.0)
\* with the dataclass defaults of the other fields.
ValidationResult(domain, enabled) ==
  [domain |-> domain, dnssec_enabled |-> enabled, chain_valid |-> FALSE,
   chain_of_trust |-> <<>>, ksk_list |-> <<>>, zsk_list |-> <<>>,
   security_issues |-> <<>>,
   total_rrsets_signed |-> 0, expired_signatures |-> 0, warnings |-> 0]

\* ------------------------------------------- validator.py: policy tables
RECOMMENDED_ALGORITHMS ==
  {"ECDSAP256SHA256", "ECDSAP384SHA384", "ED25519", "ED448"}

DEPRECATED_ALGORITHMS_NoSha1 == {"RSAMD5", "RSASHA1NSEC3SHA1"}

DEPRECATED_ALGORITHMS == {"RSAMD5", "RSASHA1", "RSASHA1NSEC3SHA1"}

NOT_RECOMMENDED == {"RSASHA256", "RSASHA512", "ECDSAP256SHA256"}

\* An `algorithm` argument: a str, or an int (isint) whose decimal text is
\* `text`.  Names the checks can be handed: the policy names, lower-case
\* spellings, a name of no table and two algorithm numbers.
AlgorithmNames ==
  {"ECDSAP256SHA256", "ECDSAP384SHA384", "ED25519", "ED448",
   "RSAMD5", "RSASHA1", "RSASHA1NSEC3SHA1", "RSASHA256", "RSASHA512",
   "rsamd5", "rsasha256", "ecdsap256sha256", "DSA", "PRIVATEDNS"}

AlgorithmArgs ==
  [isint : {FALSE}, text : AlgorithmNames] \cup [isint : {TRUE}, text : {"5", "13"}]

Str(text) == [isint |-> FALSE, text |-> text]

\* str.upper() on the names of the model.
Upper(text) ==
  CASE text = "rsamd5" -> "RSAMD5"
    [] text = "rsasha256" -> "RSASHA256"
    [] text = "ecdsap256sha256" -> "ECDSAP256SHA256"
    [] OTHER -> text

\* algo_str = str(algorithm).upper() if isinstance(algorithm, int) else algorithm
AlgoStrOfStrength(algorithm) ==
  IF algorithm.isint THEN Upper(algorithm.text) ELSE algorithm.text

\* DNSSECValidator.check_algorithm_strength
check_algorithm_strength(algorithm) ==
  LET algo_str == AlgoStrOfStrength(algorithm) IN
  IF algo_str \in DEPRECATED_ALGORITHMS
    THEN << SecurityIssue("algorithm_weak", "critical",
                          "Algorithm is deprecated per RFC 8624", << algo_str >>) >>
  ELSE IF algo_str \in NOT_RECOMMENDED
    THEN << SecurityIssue("algorithm_weak", "medium",
                          "Algorithm is not recommended per RFC 8624", << algo_str >>) >>
  ELSE << >>

\* (expiration - now).days: a timedelta's days, the floor of the difference in
\* days.  Times are whole hours since the epoch.
DaysBetween(later, earlier) == (later - earlier) \div 24

\* abs(n)
Abs(n) == IF n < 0 THEN 0 - n ELSE n

\* DNSSECValidator.check_signature_expiration at the time `now`; rrsig is
\* [has_expiration, expiration].
check_signature_expiration_InclusiveWeek(rrsig, now) ==
  LET days_until_expiry == DaysBetween(rrsig.expiration, now) IN
  IF ~rrsig.has_expiration THEN << >>
  ELSE IF days_until_expiry < 0
    THEN << SecurityIssue("signature_expired", "critical", "Signature expired days ago",
                          << ToString(Abs(days_until_expiry)) >>) >>
  ELSE IF days_until_expiry <= 7
    THEN << SecurityIssue("expiration_warning", "high", "Signature expires in days",
                          << ToString(days_until_expiry) >>) >>
  ELSE IF days_until_expiry < 30
    THEN << SecurityIssue("expiration_warning", "medium", "Signature expires in days",
                          << ToString(days_until_expiry) >>) >>
  ELSE << >>

check_signature_expiration(rrsig, now) ==
  LET days_until_expiry == DaysBetween(rrsig.expiration, now) IN
  IF ~rrsig.has_expiration THEN << >>
  ELSE IF days_until_expiry < 0
    THEN << SecurityIssue("signature_expired", "critical", "Signature expired days ago",
                          << ToString(Abs(days_until_expiry)) >>) >>
  ELSE IF days_until_expiry < 7
    THEN << SecurityIssue("expiration_warning", "high", "Signature expires in days",
                          << ToString(days_until_expiry) >>) >>
  ELSE IF days_until_expiry < 30
    THEN << SecurityIssue("expiration_warning", "medium", "Signature expires in days",
                          << ToString(days_until_expiry) >>) >>
  ELSE << >>

\* 'RSA' in algo_str, 'ECDSA' in algo_str: substring tests, on the names of
\* the model.
ContainsRSA(algo_str) ==
  algo_str \in {"RSAMD5", "RSASHA1", "RSASHA1NSEC3SHA1", "RSASHA256", "RSASHA512"}

ContainsECDSA(algo_str) == algo_str \in {"ECDSAP256SHA256", "ECDSAP384SHA384"}

\* DNSSECValidator.check_key_strength; algo_str = str(algorithm).upper()
check_key_strength_InclusiveBounds(algorithm, bits) ==
  LET algo_str == Upper(algorithm.text) IN
  IF ContainsRSA(algo_str) THEN
    IF bits <= 2048
      THEN << SecurityIssue("key_weak", "critical", "RSA key too weak", << >>) >>
    ELSE IF bits < 4096
      THEN << SecurityIssue("key_weak", "medium", "RSA key could be stronger", << >>) >>
    ELSE << >>
  ELSE IF ContainsECDSA(algo_str) THEN
    IF bits < 256
      THEN << SecurityIssue("key_weak", "critical", "ECDSA key too weak", << >>) >>
    ELSE << >>
  ELSE << >>

check_key_strength(algorithm, bits) ==
  LET algo_str == Upper(algorithm.text) IN
  IF ContainsRSA(algo_str) THEN
    IF bits < 2048
      THEN << SecurityIssue("key_weak", "critical", "RSA key too weak", << >>) >>
    ELSE IF bits < 4096
      THEN << SecurityIssue("key_weak", "medium", "RSA key could be stronger", << >>) >>
    ELSE << >>
  ELSE IF ContainsECDSA(algo_str) THEN
    IF bits < 256
      THEN << SecurityIssue("key_weak", "critical", "ECDSA key too weak", << >>) >>
    ELSE << >>
  ELSE << >>

\* [k for k in keys if pred(k)]
RECURSIVE FilterKeys(_, _)
FilterKeys(keys, role) ==
  IF keys = << >> THEN << >>
  ELSE LET k == Head(keys)
           keep == IF role = "ksk" THEN k.is_ksk ELSE k.is_zsk
       IN (IF keep THEN << k >> ELSE << >>) \o FilterKeys(Tail(keys), role)

\* The loop of check_key_rollover at the time `now`: valid_until is
\* [known, at], None or a time in whole hours since the epoch.
RECURSIVE RolloverIssues_FromDayZero(_, _)
RolloverIssues_FromDayZero(keys, now) ==
  IF keys = << >> THEN << >>
  ELSE LET key == Head(keys)
           days_until_expiry == DaysBetween(key.valid_until.at, now)
       IN (IF key.valid_until.known /\ 0 <= days_until_expiry /\ days_until_expiry < 30
             THEN << SecurityIssue("key_rollover", "medium", "Key expires in days",
                                    << ToString(key.keytag), ToString(days_until_expiry) >>) >>
             ELSE << >>) \o RolloverIssues_FromDayZero(Tail(keys), now)

RECURSIVE RolloverIssues(_, _)
RolloverIssues(keys, now) ==
  IF keys = << >> THEN << >>
  ELSE LET key == Head(keys)
           days_until_expiry == DaysBetween(key.valid_until.at, now)
       IN (IF key.valid_until.known /\ 0 < days_until_expiry /\ days_until_expiry < 30
             THEN << SecurityIssue("key_rollover", "medium", "Key expires in days",
                                    << ToString(key.keytag), ToString(days_until_expiry) >>) >>
             ELSE << >>) \o RolloverIssues(Tail(keys), now)

\* DNSSECValidator.check_key_rollover at the time `now`
check_key_rollover(keys, now) ==
  (IF FilterKeys(keys, "ksk") = << >>
     THEN << SecurityIssue("key_weak", "high", "No Key Signing Key (KSK) found", << >>) >>
     ELSE << >>)
  \o (IF FilterKeys(keys, "zsk") = << >>
        THEN << SecurityIssue("key_weak", "high", "No Zone Signing Key (ZSK) found", << >>) >>
        ELSE << >>)
  \o RolloverIssues(keys, now)

\* ------------------------------------------------------------ analyzer.py
\* sum(1 for k in keys if k.is_ksk)
RECURSIVE CountKsk(_)
CountKsk(keys) ==
  IF keys = << >> THEN 0
  ELSE (IF Head(keys).is_ksk THEN 1 ELSE 0) + CountKsk(Tail(keys))

\* DNSSECAnalyzer._analyze_keys
analyze_keys(keys) ==
  IF CountKsk(keys) = 1
    THEN << SecurityIssue("configuration_issue", "medium",
                          "Only one KSK found; redundancy recommended", << >>) >>
    ELSE << >>

\* DNSSECAnalyzer._analyze_chain
analyze_chain_StopsAtFirst(chain) ==
  LET Invalid(element) == ~element.valid
      bad == SelectSeq(chain, Invalid)
  IN IF bad = << >> THEN << >>
     ELSE << SecurityIssue("chain_invalid", "high",
                           "Chain element validation failed", bad[1].name.labels) >>

RECURSIVE analyze_chain(_)
analyze_chain(chain) ==
  IF chain = << >> THEN << >>
  ELSE (IF ~Head(chain).valid
          THEN << SecurityIssue("chain_invalid", "high",
                                "Chain element validation failed", Head(chain).name.labels) >>
          ELSE << >>) \o analyze_chain(Tail(chain))

\* DNSSECAnalyzer.analyze_result, lines 39-77: the checks of an enabled result
AnalyzeEnabled(result) ==
  (IF ~result.chain_valid
     THEN << SecurityIssue("chain_invalid", "critical",
                           "DNSSEC chain of trust validation failed", << >>) >>
     ELSE << >>)
  \o (IF result.ksk_list = << >>
        THEN << SecurityIssue("key_weak", "high", "No Key Signing Key (KSK) found", << >>) >>
        ELSE << >>)
  \o (IF result.zsk_list = << >>
        THEN << SecurityIssue("key_weak", "high", "No Zone Signing Key (ZSK) found", << >>) >>
        ELSE << >>)
  \o (IF result.ksk_list \o result.zsk_list # << >>
        THEN analyze_keys(result.ksk_list \o result.zsk_list)
        ELSE << >>)
  \o (IF result.chain_of_trust # << >>
        THEN analyze_chain(result.chain_of_trust)
        ELSE << >>)

\* DNSSECAnalyzer.analyze_result
analyze_result_NoShortCircuit(result) ==
  (IF ~result.dnssec_enabled
     THEN << SecurityIssue("configuration_issue", "high",
                           "DNSSEC is not enabled for this domain", << >>) >>
     ELSE << >>)
  \o AnalyzeEnabled(result)

analyze_result(result) ==
  IF ~result.dnssec_enabled
    THEN << SecurityIssue("configuration_issue", "high",
                          "DNSSEC is not enabled for this domain", << >>) >>
  ELSE AnalyzeEnabled(result)

\* ------------------------------------------------------------ resolver.py
\* A domain string is [labels, dot]: its labels, leaf first, and whether the
\* text ends with a dot.  dns.name.from_text gives the absolute name (the
\* labels); str(name) always ends with a dot.
from_text_DropsLeaf(domain) ==
  IF domain.labels = << >> THEN << >> ELSE Tail(domain.labels)

from_text(domain) == domain.labels

NameStr(name) == [labels |-> name, dot |-> TRUE]

root == << >>

\* current.parent(): the name without its leftmost label.
Parent_Stays(name) == name

Parent(name) == Tail(name)

None == [present |-> FALSE, rrset |-> << >>]

Some(rrset) == [present |-> TRUE, rrset |-> rrset]

\* bool(x) of an Optional[RRset]: None and the empty record set are falsy.
Truthy(x) == x.present /\ Len(x.rrset) > 0

\* DNSResolver.query: any exception of resolve() is swallowed and becomes None;
\* an answer section with no record set becomes None; else its first record set.
query(outcome) ==
  IF outcome.kind # "answer" THEN None
  ELSE IF outcome.answer = << >> THEN None
  ELSE Some(outcome.answer[1])

\* -------------------------------------------------------------- tester.py
\* tester.py never imports dns (lines 3-11 import logging, time, datetime,
\* typing and the package's own modules), so the name `dns` that _parse_keys
\* evaluates for its first record (dns.dnssec.key_id) is unbound: NameError.
DnsNameBound_Imported == TRUE

DnsNameBound == FALSE

\* One KeyInfo(...) of _parse_keys; valid_until keeps its default, None.
KeyInfo(rdata) ==
  [keytag |-> rdata.keytag, algorithm |-> rdata.algorithm, bits |-> rdata.bits,
   flags |-> rdata.flags,
   is_ksk |-> (rdata.flags % 2) # 0,
   is_zsk |-> TRUE,
   valid_until |-> [known |-> FALSE, at |-> 0]]

\* DNSSECTester._parse_keys: [raised, keys].  A falsy record set gives [];
\* otherwise the first record raises NameError (see DnsNameBound).  Were dns
\* bound, a record without the attribute key would raise AttributeError at
\* rdata.key.bit_length() (line 142): the loop has no handler of its own.
parse_keys(dnskeys) ==
  IF ~Truthy(dnskeys) THEN [raised |-> FALSE, keys |-> << >>]
  ELSE IF ~DnsNameBound THEN [raised |-> TRUE, keys |-> << >>]
  ELSE IF \E i \in 1..Len(dnskeys.rrset) : ~dnskeys.rrset[i].has_key
    THEN [raised |-> TRUE, keys |-> << >>]
  ELSE [raised |-> FALSE,
        keys |-> [i \in 1..Len(dnskeys.rrset) |-> KeyInfo(dnskeys.rrset[i])]]

\* for key in keys_list: issues.extend(check_algorithm_strength(key.algorithm))
RECURSIVE AlgorithmIssues(_)
AlgorithmIssues(keys) ==
  IF keys = << >> THEN << >>
  ELSE check_algorithm_strength(Str(Head(keys).algorithm))
         \o AlgorithmIssues(Tail(keys))

\* for key in keys_list: issues.extend(check_key_strength(key.algorithm, key.bits))
RECURSIVE KeyStrengthIssues(_)
KeyStrengthIssues(keys) ==
  IF keys = << >> THEN << >>
  ELSE check_key_strength(Str(Head(keys).algorithm), Head(keys).bits)
         \o KeyStrengthIssues(Tail(keys))

\* The except clause of test_domain: the raised error becomes one HIGH
\* chain-invalid issue appended to the result; nothing is re-raised.
ExceptionHandler_Reraise(result) == [raised |-> TRUE, result |-> result]

ExceptionHandler(result) ==
  [raised |-> FALSE,
   result |-> [result EXCEPT !.security_issues =
                 Append(@, SecurityIssue("chain_invalid", "high",
                                         "Validation error", << >>))]]

\* test_domain's checks (lines 69-85) hold no call of
\* check_signature_expiration and no query for signatures; check_expiration
\* is read nowhere.
SignatureChecks_Run(cfg) ==
  IF cfg.check_expiration
    THEN check_signature_expiration([has_expiration |-> TRUE, expiration |-> 0], 24)
    ELSE << >>

SignatureChecks(cfg) == << >>

\* The body of test_domain's try block up to the chain walk (lines 65-85).
\* [raised, result]: when _parse_keys raises, nothing has been stored yet.
\* No parsed key has a valid_until, so the time of the rollover check (0 here)
\* is never read.
ParseAndEvaluate(result, dnskeys, cfg) ==
  LET p == parse_keys(dnskeys) IN
  IF p.raised THEN [raised |-> TRUE, result |-> result]
  ELSE
    [raised |-> FALSE,
     result |->
       [result EXCEPT
          !.ksk_list = FilterKeys(p.keys, "ksk"),
          !.zsk_list = FilterKeys(p.keys, "zsk"),
          !.security_issues =
             @ \o (IF cfg.check_algorithms THEN AlgorithmIssues(p.keys) ELSE << >>)
               \o (IF cfg.check_key_strength THEN KeyStrengthIssues(p.keys) ELSE << >>)
               \o check_key_rollover(p.keys, 0)
               \o SignatureChecks(cfg)]]

\* ChainElement(name, rdtype, valid) with element.keys set when the level has
\* key records.
ChainElement_NeedsDs(level, keys) ==
  [name |-> level.name,
   rdtype |-> IF Truthy(level.dnskeys) THEN "DNSKEY" ELSE "DS",
   valid |-> level.dnskeys.present /\ level.ds_records.present,
   keys |-> keys]

ChainElement(level, keys) ==
  [name |-> level.name,
   rdtype |-> IF Truthy(level.dnskeys) THEN "DNSKEY" ELSE "DS",
   valid |-> level.dnskeys.present,
   keys |-> keys]

\* The loop of _walk_and_validate_chain: an element per level of chain_data;
\* the error _parse_keys raises for a level ends the loop inside the try, and
\* the except clause returns the elements built so far.
RECURSIVE BuildChain(_)
BuildChain(chain_data) ==
  IF chain_data = << >> THEN << >>
  ELSE LET level == Head(chain_data)
           p == IF Truthy(level.dnskeys) THEN parse_keys(level.dnskeys)
                ELSE [raised |-> FALSE, keys |-> << >>]
       IN IF p.raised THEN << >>
          ELSE << ChainElement(level, p.keys) >> \o BuildChain(Tail(chain_data))

\* all(elem.valid for elem in chain)
AllValid_Any(chain) == \E i \in 1..Len(chain) : chain[i].valid

AllValid(chain) == \A i \in 1..Len(chain) : chain[i].valid

\* ------------------------------------------------------------ the inputs
\* seq is a sequence of length at most n over S
SeqsUpTo(S, n) == UNION {[1..k -> S] : k \in 0..n}

\* The names of the model: www.example.com and its parents, down to the root.
BaseName == << "www", "example", "com" >>

Names == {SubSeq(BaseName, i, 3) : i \in {j \in 1..4 : j >= 4 - MaxLabels}}

\* A domain argument: "." for the root, else with or without the final dot.
DomainTexts ==
  {[labels |-> n, dot |-> d] : n \in Names \ {root}, d \in BOOLEAN}
    \cup {[labels |-> root, dot |-> TRUE]}

\* The domains of a batch: the root and a top-level name.
BatchDomains ==
  {[labels |-> root, dot |-> TRUE], [labels |-> << "com" >>, dot |-> FALSE]}

\* The domains tested twice: those of a batch, and a name of two labels.
TwiceDomains ==
  BatchDomains \cup {[labels |-> << "example", "com" >>, dot |-> FALSE]}

\* DNSSECConfig: the three flags test_domain reads, with check_expiration at
\* its default; and the default configuration with check_expiration off.
Configs ==
  [check_algorithms : BOOLEAN, check_key_strength : BOOLEAN, follow_chain : BOOLEAN,
   check_expiration : {TRUE}]
    \cup {[check_algorithms |-> TRUE, check_key_strength |-> TRUE,
            follow_chain |-> TRUE, check_expiration |-> FALSE]}

\* DNSSECConfig(): every flag defaults to True.
DefaultConfig ==
  [check_algorithms |-> TRUE, check_key_strength |-> TRUE, follow_chain |-> TRUE,
   check_expiration |-> TRUE]

\* Records a DNSKEY record set can hold, and a DS record.
DnskeyRdatas ==
  {[rdtype |-> "DNSKEY", keytag |-> 1, flags |-> 257,
    algorithm |-> "ECDSAP256SHA256", bits |-> 256, has_key |-> TRUE],
   [rdtype |-> "DNSKEY", keytag |-> 2, flags |-> 256,
    algorithm |-> "RSASHA1", bits |-> 1024, has_key |-> TRUE]}

DsRdatas ==
  {[rdtype |-> "DS", keytag |-> 1, flags |-> 0,
    algorithm |-> "ECDSAP256SHA256", bits |-> 0, has_key |-> FALSE]}

Rdatas(rdtype) == IF rdtype = "DNSKEY" THEN DnskeyRdatas ELSE DsRdatas

\* What self.resolver.resolve(name, rdtype) can do: raise dns.exception.Timeout,
\* raise another resolver error (NXDOMAIN, NoAnswer, NoNameservers), or return
\* a response whose answer section is empty or holds one record set.  The
\* record set may be empty: the code tells "is not None" (tester.py 47, 170)
\* from truthiness (tester.py 135, 169, 173), and only a falsy record set gets
\* past _parse_keys.
ResolveOutcomes(rdtype) ==
  {[kind |-> "timeout", answer |-> << >>], [kind |-> "nxdomain", answer |-> << >>],
   [kind |-> "answer", answer |-> << >>]}
    \cup {[kind |-> "answer", answer |-> << rrset >>] :
            rrset \in SeqsUpTo(Rdatas(rdtype), MaxRecords)}

\* -------------------------------------------------------------- the state
VARIABLES
  domains,     \* test_domains: the argument
  config,      \* self.config
  idx,         \* test_domains: position of the for loop (1-based)
  pc,          \* where the run is: "loop", "parse", "walk", "finish", "done";
               \* "unit" in the runs that call one function
  result,      \* test_domain: the ValidationResult being filled
  raised,      \* test_domain ended by raising instead of returning result
  dnskeys,     \* test_domain: the leaf DNSKEY answer
  current,     \* walk_chain: the name of the next level
  chain_data,  \* walk_chain: chain
  results,     \* test_domains: results
  invoked,     \* history: the test_domain calls made, in order, each
               \* [domain, timeout, failed, walk_failed, walked]: some
               \* resolve() of the call raised Timeout; an error reached
               \* test_domain's except clause; an error reached
               \* _walk_and_validate_chain's; lines 89-90 were run
  qlog,        \* history of the test_domain call in progress (or just ended):
               \* its resolver queries and its policy evaluation, in order
  unit,        \* a single function call: [op, arg, ret]
  world,       \* the zone data: "changing" (any answer at any time), or
               \* "unchanged" from one test_domain call to the next
  served,      \* history, kept when world = "unchanged": what resolve() did
               \* in the test_domain call in progress, in order
  script,      \* what resolve() did in the previous call when world =
               \* "unchanged", which it does again in this one; else << >>
  walklog      \* history of the walk of the test_domain call in progress
               \* (or just ended): per level, [name, keys, ds, error]: the
               \* level's name, whether its DNSKEY and its DS query returned
               \* a record set, whether one of the two resolve() calls
               \* raised Timeout

vars ==
  << domains, config, idx, pc, result, raised, dnskeys, current, chain_data,
     results, invoked, qlog, unit, world, served, script, walklog >>

NoCall == [op |-> "none"]

NoResult == ValidationResult([labels |-> root, dot |-> TRUE], FALSE)

InitRun ==
  /\ idx = 1
  /\ pc = "loop"
  /\ result = NoResult
  /\ raised = FALSE
  /\ dnskeys = None
  /\ current = root
  /\ chain_data = << >>
  /\ results = << >>
  /\ invoked = << >>
  /\ qlog = << >>
  /\ unit = NoCall
  /\ served = << >>
  /\ script = << >>
  /\ walklog = << >>

\* A batch under the default configuration (cli.py batch, examples/batch_test.py).
InitBatch ==
  /\ domains \in SeqsUpTo(BatchDomains, MaxDomains)
  /\ config = DefaultConfig
  /\ world = "changing"
  /\ InitRun

\* One domain under any configuration (cli.py test).
InitDomain ==
  /\ domains \in {<< d >> : d \in DomainTexts}
  /\ config \in Configs
  /\ world = "changing"
  /\ InitRun

\* The same domain tested twice by one tester, the zone data unchanged.
InitTwice ==
  /\ domains \in {<< d, d >> : d \in TwiceDomains}
  /\ config \in Configs
  /\ world = "unchanged"
  /\ InitRun

Init == InitBatch \/ InitDomain

\* resolve() may do o as the k-th query from here: anything when no script
\* holds it, else what the script says.
Serves(o, k) ==
  \/ script = << >>
  \/ /\ Len(served) + k <= Len(script)
     /\ script[Len(served) + k] = o

Recorded(outcomes) == IF world = "unchanged" THEN served \o outcomes ELSE served

Query(name, rdtype) == [ev |-> "query", name |-> name, rdtype |-> rdtype]

PolicyEvaluation == [ev |-> "policy", name |-> root, rdtype |-> "none"]

\* test_domain line 58: without key material the result is returned at once.
AfterLeafFetch_NoShortCircuit(enabled) == "parse"

AfterLeafFetch(enabled) == IF enabled THEN "parse" ELSE "finish"

\* for domain in domains: the next position of the loop
LoopAdvance_Skip(i) == i + 2

LoopAdvance(i) == i + 1

\* test_domains calls test_domain(domain); test_domain lines 41-61: the leaf
\* DNSKEY query, the new result, and the return when there is no key material.
TestDomainStart ==
  /\ pc = "loop"
  /\ idx <= Len(domains)
  /\ \E o \in ResolveOutcomes("DNSKEY") :
       LET domain == domains[idx]
           answer == query(o)
       IN /\ Serves(o, 1)
          /\ served' = Recorded(<< o >>)
          /\ dnskeys' = answer
          /\ result' = [ValidationResult(domain, answer.present) EXCEPT
                          !.security_issues = DefaultIssues(result.security_issues)]
          /\ invoked' = Append(invoked, [domain |-> domain,
                                         timeout |-> o.kind = "timeout",
                                         failed |-> FALSE, walk_failed |-> FALSE,
                                         walked |-> FALSE])
          /\ qlog' = << Query(from_text(domain), "DNSKEY") >>
          /\ pc' = AfterLeafFetch(answer.present)
  /\ raised' = FALSE
  /\ walklog' = << >>
  /\ UNCHANGED << domains, config, idx, current, chain_data, results, unit,
                  world, script >>

\* test_domain lines 63-99 up to the chain walk: parse, partition, policy
\* checks; an error goes to the except clause.
ParseAndCheck ==
  /\ pc = "parse"
  /\ LET got == ParseAndEvaluate(result, dnskeys, config)
         handled == ExceptionHandler(got.result)
     IN IF got.raised
          THEN /\ result' = handled.result
               /\ raised' = handled.raised
               /\ pc' = "finish"
               /\ invoked' = [invoked EXCEPT ![Len(invoked)].failed = TRUE]
               /\ UNCHANGED << qlog, current, chain_data >>
          ELSE /\ result' = got.result
               /\ raised' = FALSE
               /\ UNCHANGED invoked
               /\ qlog' = Append(qlog, PolicyEvaluation)
               /\ IF config.follow_chain
                    THEN /\ pc' = "walk"
                         /\ current' = from_text(result.domain)
                         /\ chain_data' = << >>
                    ELSE /\ pc' = "finish"
                         /\ UNCHANGED << current, chain_data >>
  /\ UNCHANGED << domains, config, idx, dnskeys, results, unit, world, served,
                  script, walklog >>

\* walk_chain, one turn of the while loop: the DNSKEY and the DS query of the
\* current name, the level appended, the move to the parent.
WalkChainStep ==
  /\ pc = "walk"
  /\ current # root
  /\ \E o1 \in ResolveOutcomes("DNSKEY"), o2 \in ResolveOutcomes("DS") :
       /\ Serves(o1, 1)
       /\ Serves(o2, 2)
       /\ served' = Recorded(<< o1, o2 >>)
       /\ walklog' = Append(walklog,
                            [name |-> current, keys |-> query(o1).present,
                             ds |-> query(o2).present,
                             error |-> o1.kind = "timeout" \/ o2.kind = "timeout"])
       /\ chain_data' = Append(chain_data,
                               [name |-> NameStr(current), dnskeys |-> query(o1),
                                ds_records |-> query(o2)])
       /\ invoked' = [invoked EXCEPT ![Len(invoked)].timeout =
                        @ \/ o1.kind = "timeout" \/ o2.kind = "timeout"]
  /\ qlog' = qlog \o << Query(current, "DNSKEY"), Query(current, "DS") >>
  /\ current' = Parent(current)
  /\ UNCHANGED << domains, config, idx, pc, result, raised, dnskeys, results, unit,
                  world, script >>

\* walk_chain returns at the root; _walk_and_validate_chain builds the
\* elements; test_domain stores them and chain_valid (lines 89-90).
WalkChainReturn ==
  /\ pc = "walk"
  /\ current = root
  /\ LET chain == BuildChain(chain_data)
     IN /\ result' = [result EXCEPT !.chain_of_trust = chain,
                                    !.chain_valid = AllValid(chain)]
        /\ invoked' = [invoked EXCEPT ![Len(invoked)].walk_failed =
                                         Len(chain) < Len(chain_data),
                                       ![Len(invoked)].walked = TRUE]
  /\ chain_data' = << >>
  /\ pc' = "finish"
  /\ UNCHANGED << domains, config, idx, raised, dnskeys, current, results,
                  qlog, unit, world, served, script, walklog >>

\* test_domain returns (lines 101-105, or 60-61); test_domains appends the
\* result, or logs the exception test_domain raised, and goes to the next domain.
TestDomainReturn ==
  /\ pc = "finish"
  /\ results' = IF raised THEN results ELSE Append(results, result)
  /\ idx' = LoopAdvance(idx)
  /\ pc' = "loop"
  /\ raised' = FALSE
  /\ dnskeys' = None
  /\ script' = served
  /\ served' = << >>
  /\ UNCHANGED << domains, config, result, current, chain_data, invoked, qlog, unit,
                  world, walklog >>

\* test_domains: the loop is over, return results.
TestDomainsReturn ==
  /\ pc = "loop"
  /\ idx > Len(domains)
  /\ pc' = "done"
  /\ UNCHANGED << domains, config, idx, result, raised, dnskeys, current,
                  chain_data, results, invoked, qlog, unit, world, served, script,
                  walklog >>

Next ==
  \/ TestDomainStart
  \/ ParseAndCheck
  \/ WalkChainStep
  \/ WalkChainReturn
  \/ TestDomainReturn
  \/ TestDomainsReturn

Spec == Init /\ [][Next]_vars

\* A batch whose loops run on: the for loop of test_domains and the while loop
\* of walk_chain take every step they can take.
FairSpec == InitBatch /\ [][Next]_vars /\ WF_vars(Next)

\* The test of one domain, likewise: the while loop of walk_chain runs on.
\* One call of test_domain that walks the chain: the default configuration
\* (follow_chain set; the walk reads no other flag).
InitWalk ==
  /\ domains \in {<< d >> : d \in DomainTexts}
  /\ config = DefaultConfig
  /\ world = "changing"
  /\ InitRun

FairDomainSpec == InitWalk /\ [][Next]_vars /\ WF_vars(Next)

\* One tester, the same domain twice.
SpecTwice == InitTwice /\ [][Next]_vars

\* ------------------------------------------------- single function calls
\* The issues a result can be handed with, and the results overall_status and
\* analyze_result are called on.
IssueSamples ==
  {SecurityIssue(t, s, "m", << >>) : t \in IssueType, s \in Severity}

ResultArgs ==
  {[ValidationResult([labels |-> << "com" >>, dot |-> FALSE], e)
      EXCEPT !.security_issues = i] :
     e \in BOOLEAN, i \in SeqsUpTo(IssueSamples, MaxIssues)}

\* Key sizes check_key_strength is called with: the thresholds of the code,
\* their neighbours, and the sizes of tests/test_validator.py.
BitLengths == {128, 255, 256, 257, 384, 1024, 2047, 2048, 2049, 4095, 4096, 8192}

\* datetime.utcnow() at the call, in whole hours since the epoch.
Nows == {0, 100}

\* Hours from now to an expiration: an hour and a day and an hour ago, now,
\* and each side of the 1-day, 7-day and 30-day marks.
ExpiryOffsets == {0 - 25, 0 - 24, 0 - 1, 0, 23, 24, 167, 168, 719, 720, 2000}

\* The RRSIG records check_signature_expiration is called with, at `now`: one
\* without the attribute `expiration`, and one per offset.
RrsigArgs(now) ==
  {[has_expiration |-> FALSE, expiration |-> 0]}
    \cup {[has_expiration |-> TRUE, expiration |-> now + off] : off \in ExpiryOffsets}

\* KeyInfo objects built by a caller, at `now`: either role flag set or not,
\* valid_until None or a time around the limits of check_key_rollover.
KeySamples(now) ==
  {[keytag |-> t, algorithm |-> "ED25519", bits |-> 256,
    flags |-> IF ksk THEN 257 ELSE 256, is_ksk |-> ksk, is_zsk |-> zsk,
    valid_until |-> v] :
     t \in {1, 2}, ksk \in BOOLEAN, zsk \in BOOLEAN,
     v \in {[known |-> FALSE, at |-> 0]}
             \cup {[known |-> TRUE, at |-> now + off] : off \in {0 - 1, 23, 24, 719, 720}}}

\* The keys of a result: KeyInfo objects without valid_until.
RoleKeys == {k \in KeySamples(0) : ~k.valid_until.known}

\* ChainElement objects of a result: a name, valid or not.
ElementSamples ==
  {[name |-> NameStr(n), rdtype |-> "DS", valid |-> v, keys |-> << >>] :
     n \in {<< "example", "com" >>, << "com" >>}, v \in BOOLEAN}

\* The results analyze_result is called on: the two key lists are the
\* partition of a key list (tester.py 66-67).
AnalyzerArgs ==
  {[ValidationResult([labels |-> << "example", "com" >>, dot |-> FALSE], e)
      EXCEPT !.chain_valid = v,
             !.ksk_list = FilterKeys(keys, "ksk"),
             !.zsk_list = FilterKeys(keys, "zsk"),
             !.chain_of_trust = chain] :
     e \in BOOLEAN, v \in BOOLEAN, keys \in SeqsUpTo(RoleKeys, MaxKeys),
     chain \in SeqsUpTo(ElementSamples, MaxLabels)}

\* A DNSKEY record of the given flags, and a malformed one: no key attribute.
FlaggedRdata(flags) ==
  [rdtype |-> "DNSKEY", keytag |-> 3, flags |-> flags, algorithm |-> "ED25519",
   bits |-> 256, has_key |-> TRUE]

MalformedRdata ==
  [rdtype |-> "DNSKEY", keytag |-> 4, flags |-> 256, algorithm |-> "ED25519",
   bits |-> 0, has_key |-> FALSE]

\* The four settings of the Zone Key bit (256) and the Secure Entry Point
\* bit (1), one record each.
AllRoleFlags ==
  << FlaggedRdata(0), FlaggedRdata(1), FlaggedRdata(256), FlaggedRdata(257) >>

\* The record sets _parse_keys is called on: None, and sets of well-formed
\* and malformed records.
ParseArgs ==
  {None, Some(AllRoleFlags)}
    \cup {Some(rrset) : rrset \in SeqsUpTo(DnskeyRdatas \cup {MalformedRdata}, MaxKeys)}

InitUnit ==
  /\ domains = << >>
  /\ config = DefaultConfig
  /\ idx = 1
  /\ pc = "unit"
  /\ result = NoResult
  /\ raised = FALSE
  /\ dnskeys = None
  /\ current = root
  /\ chain_data = << >>
  /\ results = << >>
  /\ invoked = << >>
  /\ qlog = << >>
  /\ unit = NoCall
  /\ world = "changing"
  /\ served = << >>
  /\ script = << >>
  /\ walklog = << >>

UnitFrame ==
  UNCHANGED << domains, config, idx, pc, result, raised, dnskeys, current,
               chain_data, results, invoked, qlog, world, served, script, walklog >>

\* result.overall_status
CallOverallStatus ==
  /\ pc = "unit"
  /\ unit = NoCall
  /\ \E r \in ResultArgs :
       unit' = [op |-> "overall_status", arg |-> r, ret |-> overall_status(r)]
  /\ UnitFrame

\* validator.check_algorithm_strength(algorithm)
CallCheckAlgorithmStrength ==
  /\ pc = "unit"
  /\ unit = NoCall
  /\ \E a \in AlgorithmArgs :
       unit' = [op |-> "check_algorithm_strength", arg |-> a,
                ret |-> check_algorithm_strength(a)]
  /\ UnitFrame

\* validator.check_key_strength(algorithm, bits)
CallCheckKeyStrength ==
  /\ pc = "unit"
  /\ unit = NoCall
  /\ \E a \in AlgorithmArgs, b \in BitLengths :
       unit' = [op |-> "check_key_strength", arg |-> [algorithm |-> a, bits |-> b],
                ret |-> check_key_strength(a, b)]
  /\ UnitFrame

\* validator.check_signature_expiration(rrsig)
CallCheckSignatureExpiration ==
  /\ pc = "unit"
  /\ unit = NoCall
  /\ \E now \in Nows : \E r \in RrsigArgs(now) :
       unit' = [op |-> "check_signature_expiration", arg |-> [rrsig |-> r, now |-> now],
                ret |-> check_signature_expiration(r, now)]
  /\ UnitFrame

\* validator.check_key_rollover(keys)
CallCheckKeyRollover ==
  /\ pc = "unit"
  /\ unit = NoCall
  /\ \E now \in Nows : \E keys \in SeqsUpTo(KeySamples(now), MaxKeys) :
       unit' = [op |-> "check_key_rollover", arg |-> [keys |-> keys, now |-> now],
                ret |-> check_key_rollover(keys, now)]
  /\ UnitFrame

\* tester._parse_keys(dnskeys)
CallParseKeys ==
  /\ pc = "unit"
  /\ unit = NoCall
  /\ \E d \in ParseArgs :
       unit' = [op |-> "parse_keys", arg |-> d, ret |-> parse_keys(d)]
  /\ UnitFrame

\* analyzer.analyze_result(result)
CallAnalyzeResult ==
  /\ pc = "unit"
  /\ unit = NoCall
  /\ \E r \in AnalyzerArgs :
       unit' = [op |-> "analyze_result", arg |-> r, ret |-> analyze_result(r)]
  /\ UnitFrame

NextUnit ==
  \/ CallOverallStatus
  \/ CallCheckAlgorithmStrength
  \/ CallCheckKeyStrength
  \/ CallCheckSignatureExpiration
  \/ CallCheckKeyRollover
  \/ CallParseKeys
  \/ CallAnalyzeResult

SpecUnit == InitUnit /\ [][NextUnit]_vars

\* ------------------------------------------------------------ properties
SeveritiesOf(issues) == {issues[i].severity : i \in 1..Len(issues)}

\* how many issues of a sequence satisfy a test
CountOf(issues, Test(_)) == Cardinality({i \in 1..Len(issues) : Test(issues[i])})

IsValidationError(i) ==
  i.type = "chain_invalid" /\ i.severity = "high" /\ i.message = "Validation error"

IsHighConfigurationIssue(i) == i.type = "configuration_issue" /\ i.severity = "high"

IsNoZskIssue(i) ==
  i.severity = "high" /\ i.message = "No Zone Signing Key (ZSK) found"

IsSingleKskIssue(i) ==
  i.severity = "medium" /\ i.message = "Only one KSK found; redundancy recommended"

InvokedDomains == [i \in 1..Len(invoked) |-> invoked[i].domain]

LastCall == invoked[Len(invoked)]

\* C1: overall_status of any result is no_dnssec when DNSSEC is disabled,
\* whatever its issues; otherwise critical_issues when some issue is CRITICAL,
\* else vulnerable when some issue is HIGH, else warnings when there is any
\* issue, else secure.
C1_OverallStatus ==
  unit.op = "overall_status" =>
    LET sev == SeveritiesOf(unit.arg.security_issues) IN
    /\ ~unit.arg.dnssec_enabled => unit.ret = "no_dnssec"
    /\ unit.arg.dnssec_enabled =>
         /\ "critical" \in sev => unit.ret = "critical_issues"
         /\ ("critical" \notin sev /\ "high" \in sev) => unit.ret = "vulnerable"
         /\ (sev # {} /\ sev \cap {"critical", "high"} = {}) => unit.ret = "warnings"
         /\ sev = {} => unit.ret = "secure"

\* a disabled result that holds a CRITICAL issue has been given its status
C1_Witness ==
  /\ unit.op = "overall_status"
  /\ ~unit.arg.dnssec_enabled
  /\ "critical" \in SeveritiesOf(unit.arg.security_issues)
  /\ unit.ret = "no_dnssec"

C3_FailureBecomesOneHighIssue ==
  (pc = "finish" /\ result.dnssec_enabled
     /\ (LastCall.failed \/ LastCall.walk_failed)) =>
    /\ CountOf(result.security_issues, IsValidationError) = 1
    /\ IsValidationError(result.security_issues[Len(result.security_issues)])

\* C4: a result without key material is returned after exactly one resolver
\* query, the leaf DNSKEY query, with no chain, no keys and chain_valid false.
C4_NoKeyMaterialShortCircuit ==
  /\ (pc = "finish" /\ ~result.dnssec_enabled) =>
       /\ qlog = << Query(from_text(result.domain), "DNSKEY") >>
       /\ result.chain_of_trust = << >>
       /\ result.ksk_list = << >>
       /\ result.zsk_list = << >>
       /\ ~result.chain_valid
  /\ (pc \in {"loop", "done"} /\ results # << >>
        /\ ~results[Len(results)].dnssec_enabled) => Len(qlog) = 1
  /\ \A i \in 1..Len(results) :
       ~results[i].dnssec_enabled =>
         /\ results[i].chain_of_trust = << >>
         /\ results[i].ksk_list = << >>
         /\ results[i].zsk_list = << >>
         /\ ~results[i].chain_valid

\* the test of example.com is returning a result without key material
C4_Witness ==
  /\ pc = "finish"
  /\ ~result.dnssec_enabled
  /\ Len(from_text(result.domain)) = 2
  /\ config.follow_chain
  /\ Len(qlog) = 1

\* C5: the result of a domain without key material has dnssec_enabled false,
\* an empty chain_of_trust, exactly one HIGH configuration-issue in
\* security_issues, and overall_status no_dnssec.
C5_NoKeyMaterialResult ==
  \A i \in 1..Len(results) :
    ~results[i].dnssec_enabled =>
      /\ results[i].chain_of_trust = << >>
      /\ CountOf(results[i].security_issues, IsHighConfigurationIssue) = 1
      /\ overall_status(results[i]) = "no_dnssec"

\* The leaf answer of C6: one key-signing key, ECDSAP256SHA256, 256 bits.
OneKskLeaf ==
  Some(<< [rdtype |-> "DNSKEY", keytag |-> 1, flags |-> 257,
           algorithm |-> "ECDSAP256SHA256", bits |-> 256, has_key |-> TRUE] >>)

\* C6: the result of a domain whose key set is one key-signing key of a
\* recommended algorithm and 256 bits holds a HIGH no-zone-signing-key issue
\* and a MEDIUM single-key-signing-key issue, no CRITICAL issue, and has
\* overall_status vulnerable.
C6_OneKskNoZsk ==
  (pc = "finish" /\ dnskeys = OneKskLeaf) =>
    /\ CountOf(result.security_issues, IsNoZskIssue) >= 1
    /\ CountOf(result.security_issues, IsSingleKskIssue) >= 1
    /\ "critical" \notin SeveritiesOf(result.security_issues)
    /\ overall_status(result) = "vulnerable"

\* C7: a batch of three whose second domain's queries time out returns three
\* results in input order, and the second holds an issue (one noting the
\* timeout is in particular an issue).
C7_TimeoutLeavesAnIssue ==
  (pc = "done" /\ Len(domains) = 3 /\ Len(invoked) = 3 /\ invoked[2].timeout) =>
    /\ Len(results) = 3
    /\ \A i \in 1..3 : results[i].domain = domains[i]
    /\ results[2].security_issues # << >>

\* C8: in a batch, test_domain is called for the input domains in input order,
\* and the batch ends having called it exactly once for each, whatever the
\* earlier calls ended with.
C8_EveryDomainTested ==
  /\ [](InvokedDomains = SubSeq(domains, 1, Len(invoked)))
  /\ <>(pc = "done" /\ InvokedDomains = domains)

\* a batch of three has ended, the test of its first domain having failed
C8_Witness ==
  /\ pc = "done"
  /\ Len(domains) = 3
  /\ InvokedDomains = domains
  /\ invoked[1].failed

\* C9: check_algorithm_strength returns a CRITICAL issue exactly for RSAMD5,
\* RSASHA1 and RSASHA1NSEC3SHA1: for these one issue, algorithm-weak and
\* CRITICAL; for any other argument no CRITICAL issue.
C9_DeprecatedIsCritical ==
  unit.op = "check_algorithm_strength" =>
    IF ~unit.arg.isint /\ unit.arg.text \in {"RSAMD5", "RSASHA1", "RSASHA1NSEC3SHA1"}
      THEN /\ Len(unit.ret) = 1
           /\ unit.ret[1].type = "algorithm_weak"
           /\ unit.ret[1].severity = "critical"
      ELSE "critical" \notin SeveritiesOf(unit.ret)

\* check_algorithm_strength('RSASHA1') has returned its CRITICAL issue
C9_Witness ==
  /\ unit.op = "check_algorithm_strength"
  /\ unit.arg = Str("RSASHA1")
  /\ "critical" \in SeveritiesOf(unit.ret)

\* C10: check_algorithm_strength returns no issue for ECDSAP256SHA256,
\* ECDSAP384SHA384, ED25519 and ED448.
C10_RecommendedHasNoIssue ==
  (unit.op = "check_algorithm_strength" /\ ~unit.arg.isint
     /\ unit.arg.text \in {"ECDSAP256SHA256", "ECDSAP384SHA384", "ED25519", "ED448"}) =>
    unit.ret = << >>

\* exactly one issue, of this type and severity
OneIssue(issues, type, severity) ==
  /\ Len(issues) = 1
  /\ issues[1].type = type
  /\ issues[1].severity = severity

\* The names with 'RSA' in them, in either case.
RsaFamilyNames ==
  {"RSAMD5", "RSASHA1", "RSASHA1NSEC3SHA1", "RSASHA256", "RSASHA512",
   "rsamd5", "rsasha256"}

\* C11: for an RSA-family algorithm name, check_key_strength returns exactly
\* one CRITICAL key-weak issue when bits < 2048, exactly one MEDIUM key-weak
\* issue when 2048 <= bits < 4096, and no issue when bits >= 4096.
C11_RsaKeyStrength ==
  (unit.op = "check_key_strength" /\ ~unit.arg.algorithm.isint
     /\ unit.arg.algorithm.text \in RsaFamilyNames) =>
    LET bits == unit.arg.bits IN
    /\ bits < 2048 => OneIssue(unit.ret, "key_weak", "critical")
    /\ (2048 <= bits /\ bits < 4096) => OneIssue(unit.ret, "key_weak", "medium")
    /\ bits >= 4096 => unit.ret = << >>

\* check_key_strength('RSASHA256', 2048) has returned its MEDIUM issue
C11_Witness ==
  /\ unit.op = "check_key_strength"
  /\ unit.arg = [algorithm |-> Str("RSASHA256"), bits |-> 2048]
  /\ OneIssue(unit.ret, "key_weak", "medium")

\* C12: for ECDSAP256SHA256, ECDSAP384SHA384, ED25519 and ED448,
\* check_key_strength returns a CRITICAL key-weak issue when bits < 256 and no
\* issue when bits >= 256.
C12_EllipticCurveKeyStrength ==
  (unit.op = "check_key_strength" /\ ~unit.arg.algorithm.isint
     /\ unit.arg.algorithm.text
          \in {"ECDSAP256SHA256", "ECDSAP384SHA384", "ED25519", "ED448"}) =>
    IF unit.arg.bits < 256
      THEN \E i \in 1..Len(unit.ret) :
             unit.ret[i].type = "key_weak" /\ unit.ret[i].severity = "critical"
      ELSE unit.ret = << >>

\* The whole days from `now` to `at`, floored: the d with d days <= at - now
\* < d + 1 days.
WholeDays(at, now) ==
  CHOOSE d \in (0 - 10)..100 : 24 * d <= at - now /\ at - now < 24 * (d + 1)

\* C13: check_signature_expiration, with d the whole days (floored) from now
\* to the signature's expiration, returns one CRITICAL signature-expired issue
\* when d < 0, one HIGH expiration-warning when 0 <= d < 7, one MEDIUM
\* expiration-warning when 7 <= d < 30, and no issue when d >= 30.
C13_SignatureExpirationBuckets ==
  (unit.op = "check_signature_expiration" /\ unit.arg.rrsig.has_expiration) =>
    LET d == WholeDays(unit.arg.rrsig.expiration, unit.arg.now) IN
    /\ d < 0 => OneIssue(unit.ret, "signature_expired", "critical")
    /\ (0 <= d /\ d < 7) => OneIssue(unit.ret, "expiration_warning", "high")
    /\ (7 <= d /\ d < 30) => OneIssue(unit.ret, "expiration_warning", "medium")
    /\ d >= 30 => unit.ret = << >>

\* a signature that expires in exactly seven days got its MEDIUM warning
C13_Witness ==
  /\ unit.op = "check_signature_expiration"
  /\ unit.arg.rrsig.has_expiration
  /\ unit.arg.rrsig.expiration - unit.arg.now = 168
  /\ OneIssue(unit.ret, "expiration_warning", "medium")

\* C14: check_key_rollover returns, in this order: one HIGH 'no KSK' issue iff
\* no key has the key-signing role; one HIGH 'no ZSK' issue iff no key has the
\* zone-signing role; and, in key order, one MEDIUM key-rollover issue for
\* each key with a known expiration d whole days away, 0 < d < 30.
C14_KeyRolloverSequence ==
  unit.op = "check_key_rollover" =>
    LET keys == unit.arg.keys
        Due(k) == /\ k.valid_until.known
                  /\ 0 < WholeDays(k.valid_until.at, unit.arg.now)
                  /\ WholeDays(k.valid_until.at, unit.arg.now) < 30
        due == SelectSeq(keys, Due)
        nk == IF \E i \in 1..Len(keys) : keys[i].is_ksk THEN 0 ELSE 1
        nz == IF \E i \in 1..Len(keys) : keys[i].is_zsk THEN 0 ELSE 1
    IN /\ Len(unit.ret) = nk + nz + Len(due)
       /\ nk = 1 => /\ unit.ret[1].severity = "high"
                    /\ unit.ret[1].message = "No Key Signing Key (KSK) found"
       /\ nz = 1 => /\ unit.ret[nk + 1].severity = "high"
                    /\ unit.ret[nk + 1].message = "No Zone Signing Key (ZSK) found"
       /\ \A j \in 1..Len(due) :
            /\ unit.ret[nk + nz + j].type = "key_rollover"
            /\ unit.ret[nk + nz + j].severity = "medium"
            /\ unit.ret[nk + nz + j].about[1] = ToString(due[j].keytag)

\* two keys without a role, key 2 then key 1, both soon to expire: four issues
C14_Witness ==
  /\ unit.op = "check_key_rollover"
  /\ Len(unit.arg.keys) = 2
  /\ unit.arg.keys[1].keytag = 2
  /\ unit.arg.keys[2].keytag = 1
  /\ Len(unit.ret) = 4
  /\ unit.ret[3].about[1] = "2"
  /\ unit.ret[4].about[1] = "1"

\* C15: walk_chain on a domain with N labels never holds more than N + 1
\* levels, and a walk that was started ends, whatever the resolver answers.
C15_WalkChainTerminates ==
  /\ [](pc = "walk" => Len(chain_data) <= Len(from_text(result.domain)) + 1)
  /\ [](pc = "finish" =>
          Len(result.chain_of_trust) <= Len(from_text(result.domain)) + 1)
  /\ (pc = "walk") ~> (pc = "finish")

\* the walk from example.com has reached the root with its two levels
C15_Witness ==
  /\ pc = "walk"
  /\ current = root
  /\ Len(from_text(result.domain)) = 2
  /\ Len(chain_data) = 2

\* C16: when one tester has tested the same domain twice, the resolver doing
\* the same both times and the configuration being the same, the two results
\* are equal in every field of the model (all but timestamp and
\* validation_time_ms) and in overall_status.
C16_SecondRunIsIdentical ==
  (pc = "done" /\ world = "unchanged") =>
    /\ Len(results) = 2
    /\ results[1] = results[2]
    /\ overall_status(results[1]) = overall_status(results[2])

\* both runs are over, and the first had found issues and walked a chain
C16_Witness ==
  /\ pc = "done"
  /\ world = "unchanged"
  /\ Len(results) = 2
  /\ results[1].security_issues # << >>
  /\ results[1].chain_of_trust # << >>

\* C17 as stated: in every result about to be returned for a DNSSEC-enabled
\* domain, chain_valid is true if and only if every element of chain_of_trust
\* is marked valid.
C17_ChainValidIsConjunction ==
  (pc = "finish" /\ result.dnssec_enabled) =>
    (result.chain_valid <=>
       \A i \in 1..Len(result.chain_of_trust) : result.chain_of_trust[i].valid)

\* C17, amended: in a result about to be returned for a DNSSEC-enabled
\* domain, when the chain walk was carried out (chain following on, and no
\* error before it) chain_valid is true if and only if every element of
\* chain_of_trust is marked valid; otherwise chain_valid is false and
\* chain_of_trust is empty.
C17_ChainValidAfterWalk ==
  (pc = "finish" /\ result.dnssec_enabled) =>
    IF LastCall.walked
      THEN result.chain_valid <=>
             \A i \in 1..Len(result.chain_of_trust) : result.chain_of_trust[i].valid
      ELSE ~result.chain_valid /\ result.chain_of_trust = << >>

\* a walk of two levels, one of them invalid, gave chain_valid false
C17_Witness ==
  /\ pc = "finish"
  /\ result.dnssec_enabled
  /\ LastCall.walked
  /\ Len(result.chain_of_trust) = 2
  /\ ~result.chain_of_trust[1].valid
  /\ result.chain_of_trust[2].valid
  /\ ~result.chain_valid

\* C18: analyze_result of a result with dnssec_enabled false returns exactly
\* one issue, a HIGH configuration-issue, whatever the result's chain_valid,
\* key lists and chain_of_trust hold.
C18_DisabledShortCircuit ==
  (unit.op = "analyze_result" /\ ~unit.arg.dnssec_enabled) =>
    OneIssue(unit.ret, "configuration_issue", "high")

\* a disabled result with an invalid chain and no key got its one issue
C18_Witness ==
  /\ unit.op = "analyze_result"
  /\ ~unit.arg.dnssec_enabled
  /\ ~unit.arg.chain_valid
  /\ unit.arg.ksk_list = << >>
  /\ \E i \in 1..Len(unit.arg.chain_of_trust) : ~unit.arg.chain_of_trust[i].valid
  /\ Len(unit.ret) = 1

IsCriticalChainIssue(i) == i.type = "chain_invalid" /\ i.severity = "critical"

IsHighChainIssue(i) == i.type = "chain_invalid" /\ i.severity = "high"

IsInvalidElement(element) == ~element.valid

\* the names a sequence of issues, or of chain elements, is about
AboutOf(issues) == [i \in 1..Len(issues) |-> issues[i].about]

NamesOf(chain) == [i \in 1..Len(chain) |-> chain[i].name.labels]

\* C19: analyze_result of an enabled result returns one CRITICAL chain-invalid
\* issue when chain_valid is false and none when it is true, and its HIGH
\* chain-invalid issues are, in chain order, one per invalid chain element,
\* each naming its element.
C19_ChainIssues ==
  (unit.op = "analyze_result" /\ unit.arg.dnssec_enabled) =>
    /\ CountOf(unit.ret, IsCriticalChainIssue) = IF unit.arg.chain_valid THEN 0 ELSE 1
    /\ AboutOf(SelectSeq(unit.ret, IsHighChainIssue))
         = NamesOf(SelectSeq(unit.arg.chain_of_trust, IsInvalidElement))

\* an enabled result whose two chain elements are invalid got three chain issues
C19_Witness ==
  /\ unit.op = "analyze_result"
  /\ unit.arg.dnssec_enabled
  /\ ~unit.arg.chain_valid
  /\ Len(unit.arg.chain_of_trust) = 2
  /\ ~unit.arg.chain_of_trust[1].valid
  /\ ~unit.arg.chain_of_trust[2].valid
  /\ unit.arg.chain_of_trust[1].name # unit.arg.chain_of_trust[2].name
  /\ CountOf(unit.ret, IsCriticalChainIssue) = 1
  /\ Len(SelectSeq(unit.ret, IsHighChainIssue)) = 2

\* C20: analyze_result of an enabled result returns the MEDIUM redundancy
\* configuration-issue exactly when the result holds exactly one key-signing
\* key, whether or not that key is in zsk_list too.
C20_SingleKskRedundancy ==
  (unit.op = "analyze_result" /\ unit.arg.dnssec_enabled) =>
    (CountOf(unit.ret, IsSingleKskIssue) = 1 <=> Len(unit.arg.ksk_list) = 1)

IsWellFormed(rdata) == rdata.has_key

\* C21: _parse_keys on a record set with a malformed record does not raise
\* and returns the KeyInfo of every well-formed record, in record order (the
\* malformed record being skipped, with one MEDIUM configuration-issue).
C21_MalformedRecordSkipped ==
  (unit.op = "parse_keys" /\ Truthy(unit.arg)
     /\ \E i \in 1..Len(unit.arg.rrset) : ~IsWellFormed(unit.arg.rrset[i])) =>
    LET good == SelectSeq(unit.arg.rrset, IsWellFormed) IN
    /\ ~unit.ret.raised
    /\ Len(unit.ret.keys) = Len(good)
    /\ \A i \in 1..Len(good) : unit.ret.keys[i].keytag = good[i].keytag

FirstErrorLevel ==
  CHOOSE i \in 1..Len(walklog) :
    walklog[i].error /\ \A j \in 1..(i - 1) : ~walklog[j].error

\* C23: when a query of the chain walk failed with a transport error, the
\* chain of the result holds exactly the elements of the levels before the
\* first such level.
C23_TransportErrorStopsWalk ==
  (pc = "finish" /\ LastCall.walked /\ \E i \in 1..Len(walklog) : walklog[i].error) =>
    Len(result.chain_of_trust) = FirstErrorLevel - 1

\* names (label sequences) from a leaf up: the first is `leaf`, each next one
\* is the one before without its leftmost label, none is the root, none
\* occurs twice
LeafToRoot(names, leaf) ==
  /\ names # << >> => names[1] = leaf
  /\ \A i \in 2..Len(names) : names[i] = Tail(names[i - 1])
  /\ \A i \in 1..Len(names) : names[i] # << >>
  /\ \A i, j \in 1..Len(names) : i # j => names[i] # names[j]

C29_LeafJudgedConsistently ==
  (pc = "finish" /\ result.dnssec_enabled /\ config.follow_chain
     /\ ~LastCall.failed /\ result.domain.labels # root) =>
    /\ result.chain_of_trust # << >>
    /\ result.chain_of_trust[1].name.labels = result.domain.labels
    /\ result.chain_of_trust[1].valid

\* C26: in the history of a test_domain call no resolver query comes after
\* a policy evaluation.
C26_QueriesBeforePolicy ==
  \A i, j \in 1..Len(qlog) :
    (i < j /\ qlog[i].ev = "policy") => qlog[j].ev # "query"

IsAlgorithmWeak(i) == i.type = "algorithm_weak"

IsKeyWeak(i) == i.type = "key_weak"

\* C27: a result made with check_algorithms off holds no algorithm-weak
\* issue, and a result made with check_key_strength off holds no key-weak
\* issue.
C27_FlagsSwitchOffFindings ==
  pc = "finish" =>
    /\ ~config.check_algorithms => CountOf(result.security_issues, IsAlgorithmWeak) = 0
    /\ ~config.check_key_strength => CountOf(result.security_issues, IsKeyWeak) = 0

IsSignatureIssue(i) == i.type \in {"signature_expired", "expiration_warning"}

\* no signature issue, and the three counters at 0
NoSignatureFindings(r) ==
  /\ CountOf(r.security_issues, IsSignatureIssue) = 0
  /\ r.total_rrsets_signed = 0
  /\ r.expired_signatures = 0
  /\ r.warnings = 0

\* C30: no result of test_domain, about to be returned or returned, holds a
\* signature-expired or expiration-warning issue, and its counters
\* total_rrsets_signed, expired_signatures and warnings are 0, check_expiration
\* on or off.
C30_NoSignatureFindings ==
  /\ pc = "finish" => NoSignatureFindings(result)
  /\ \A k \in 1..Len(results) : NoSignatureFindings(results[k])

\* with check_expiration on, a result that went through the checks and the
\* walk is about to be returned
C30_Witness ==
  /\ pc = "finish"
  /\ config.check_expiration
  /\ result.dnssec_enabled
  /\ LastCall.walked
  /\ result.security_issues # << >>
  /\ NoSignatureFindings(result)

\* C25: _parse_keys on a record set with every setting of the two role bits
\* returns a key per record whose is_ksk is true exactly when the Secure Entry
\* Point bit of its flags is set, and some returned key is not a zone-signing
\* key.
C25_RolesDecodedFromFlags ==
  (unit.op = "parse_keys" /\ unit.arg = Some(AllRoleFlags)) =>
    /\ ~unit.ret.raised
    /\ Len(unit.ret.keys) = Len(AllRoleFlags)
    /\ \A i \in 1..Len(AllRoleFlags) :
         unit.ret.keys[i].is_ksk <=> (AllRoleFlags[i].flags % 2 = 1)
    /\ \E i \in 1..Len(AllRoleFlags) : ~unit.ret.keys[i].is_zsk

====
